---- MODULE Spec2Model ----
(***************************************************************************)
(* The development-application scraper of the District Council of Loxton   *)
(* Waikerie: scraper.ts (insert or replace) and its older build            *)
(* (insert or ignore, with a comment_url column).                          *)
(*                                                                         *)
(* A text is a sequence of one-character strings, so that trimming,        *)
(* whitespace collapsing, date parsing and date formatting are computed    *)
(* character by character as the code and its libraries compute them.      *)
(***************************************************************************)
EXTENDS Integers, Sequences, FiniteSets, TLC

VARIABLES
    program,                  \* which build runs: "replace" (scraper.ts) or "ignore"
    pc,                       \* position of main() / of the pure-function harness
    cycle,                    \* 1: last month, 2: random other month, 0: not in a cycle
    today,                    \* moment() of this invocation: [year, month (0-based), date]
    randomMonth,              \* main's randomMonth, 0 before it is drawn
    body,                     \* the parsed search-results page: a sequence of heading blocks
    developmentApplications,  \* the records getResults returned
    insertIndex,              \* index of the record whose insertRow is awaited
    database,                 \* table [data] of data.sqlite: council_reference -> row
    console,                  \* messages printed since the last search response, in order
    firstInserted,            \* history: reference -> first record passed to a successful insertRow
    lastInserted,             \* history: reference -> last record passed to a successful insertRow
    runs,                     \* invocations started so far
    ddl,                      \* the create-table statement: "none", "queued" or "done"
    jar,                      \* the cookie jar of the current getResults call
    requests,                 \* the HTTP requests this invocation has issued, in order
    timer,                    \* milliseconds of the pending sleep(), 0 when none
    statements,               \* prepared statements of this process not yet finalized
    text,                     \* input of the pure-function harnesses
    result,                   \* output of the pure-function harnesses
    exited,                   \* exit codes of the process: none while it runs
    outcomes                  \* history: message and case of every successful upsert

vars == <<program, pc, cycle, today, randomMonth, body, developmentApplications,
          insertIndex, database, console, firstInserted, lastInserted, runs, ddl, jar,
          requests, timer, statements, text, result, exited, outcomes>>

----------------------------------------------------------------------------
(* Characters and texts *)

\* The characters String.prototype.trim and the regex class \s treat as white space
\* (space, tab and line feed stand for the whole class).
WhiteSpace == {" ", "\t", "\n"}

Digits == {"0", "1", "2", "3", "4", "5", "6", "7", "8", "9"}

DigitValue(c) ==
    CASE c = "0" -> 0 [] c = "1" -> 1 [] c = "2" -> 2 [] c = "3" -> 3 [] c = "4" -> 4
      [] c = "5" -> 5 [] c = "6" -> 6 [] c = "7" -> 7 [] c = "8" -> 8 [] c = "9" -> 9

DigitChar(n) ==
    CASE n = 0 -> "0" [] n = 1 -> "1" [] n = 2 -> "2" [] n = 3 -> "3" [] n = 4 -> "4"
      [] n = 5 -> "5" [] n = 6 -> "6" [] n = 7 -> "7" [] n = 8 -> "8" [] n = 9 -> "9"

KeyTypeOfWork == <<"T", "y", "p", "e", " ", "o", "f", " ", "W", "o", "r", "k">>
KeyApplicationNo == <<"A", "p", "p", "l", "i", "c", "a", "t", "i", "o", "n", " ", "N", "o", ".">>
KeyDateLodged == <<"D", "a", "t", "e", " ", "L", "o", "d", "g", "e", "d">>
NoDescriptionProvided ==
    <<"N", "o", " ", "D", "e", "s", "c", "r", "i", "p", "t", "i", "o", "n", " ",
      "P", "r", "o", "v", "i", "d", "e", "d">>
DevelopmentApplicationMainUrl == "daEnquiryInit.do?nodeNum=2811"
CommentUrl == "mailto:requests@waikerie.com"

\* String.prototype.trim
RECURSIVE TrimStart(_)
TrimStart(s) ==
    IF s # <<>> /\ Head(s) \in WhiteSpace THEN TrimStart(Tail(s)) ELSE s

RECURSIVE TrimEnd(_)
TrimEnd(s) ==
    IF s # <<>> /\ s[Len(s)] \in WhiteSpace THEN TrimEnd(SubSeq(s, 1, Len(s) - 1)) ELSE s

Trim(s) == TrimEnd(TrimStart(s))

\* s.replace(/\s\s+/g, " "): scanning from the left, each maximal run of two or more
\* white-space characters becomes one space; every other character is copied.
RECURSIVE ReplaceSpaceRuns(_)
ReplaceSpaceRuns(s) ==
    IF s = <<>> THEN <<>>
    ELSE IF Len(s) >= 2 /\ s[1] \in WhiteSpace /\ s[2] \in WhiteSpace
         THEN <<" ">> \o ReplaceSpaceRuns(TrimStart(s))
         ELSE <<Head(s)>> \o ReplaceSpaceRuns(Tail(s))

\* A variant that forgets trim().
NormalizeAddressUntrimmed(headerText) == ReplaceSpaceRuns(headerText)

\* $(headerElement).text().trim().replace(/\s\s+/g, " ")
NormalizeAddress(headerText) == ReplaceSpaceRuns(Trim(headerText))

----------------------------------------------------------------------------
(* moment(value, "D/MM/YYYY", true) and format("YYYY-MM-DD") *)

RECURSIVE ToInt(_)
ToInt(s) ==
    IF s = <<>> THEN 0
    ELSE ToInt(SubSeq(s, 1, Len(s) - 1)) * 10 + DigitValue(s[Len(s)])

\* zero-padded decimal of n, at least `width` characters
RECURSIVE ZeroFill(_, _)
ZeroFill(n, width) ==
    IF n < 10 /\ width <= 1 THEN <<DigitChar(n)>>
    ELSE ZeroFill(n \div 10, width - 1) \o <<DigitChar(n % 10)>>

DigitsAt(s, i, n) ==
    /\ i + n - 1 <= Len(s)
    /\ \A k \in i..(i + n - 1) : s[k] \in Digits

NoMatch == [start |-> 0, len |-> 0]

\* The least index of a non-empty set of indices, 0 for the empty set.
Leftmost(indices) ==
    IF indices = {} THEN 0 ELSE CHOOSE i \in indices : \A j \in indices : i <= j

\* Where the leftmost run of n digits of s starts (0: nowhere); where its first "/" is.
FirstDigits(s, n) == Leftmost({i \in 1..Len(s) : DigitsAt(s, i, n)})
FirstSlash(s) == Leftmost({i \in 1..Len(s) : s[i] = "/"})

MatchAt(start, len) == IF start = 0 THEN NoMatch ELSE [start |-> start, len |-> len]

\* /\d\d?/ is greedy: a second digit is taken when there is one.
MatchOneOrTwo(s, start) ==
    IF start = 0 THEN NoMatch
    ELSE [start |-> start, len |-> IF DigitsAt(s, start, 2) THEN 2 ELSE 1]

\* The leftmost match in s of the strict-mode regex of a format token:
\* D -> /\d\d?/, MM -> /\d\d/, YYYY -> /\d{4}/, the literal "/" -> /\//.
MatchToken(token, s) ==
    CASE token = "D" -> MatchOneOrTwo(s, FirstDigits(s, 1))
      [] token = "MM" -> MatchAt(FirstDigits(s, 2), 2)
      [] token = "YYYY" -> MatchAt(FirstDigits(s, 4), 4)
      [] OTHER -> MatchAt(FirstSlash(s), 1)

FormatTokens == <<"D", "/", "MM", "/", "YYYY">>

\* The value a date token stores in the parsed array.
TokenValue(token, parsedInput, old, field) ==
    IF token # field THEN old
    ELSE IF token = "MM" THEN ToInt(parsedInput) - 1
    ELSE ToInt(parsedInput)

\* One token of moment's configFromStringAndFormat, given the match m of its regex in
\* what is left of the input: skipped characters are unused input, a token without a
\* match is an unused token.
ConsumeToken(st, token, m) ==
    IF m.start = 0
    THEN [st EXCEPT !.unusedTokens = TRUE]
    ELSE [st EXCEPT
            !.string = SubSeq(st.string, m.start + m.len, Len(st.string)),
            !.unusedInput = st.unusedInput \/ m.start > 1,
            !.empty = st.empty /\ token = "/",
            !.date = TokenValue(token, SubSeq(st.string, m.start, m.start + m.len - 1), @, "D"),
            !.month = TokenValue(token, SubSeq(st.string, m.start, m.start + m.len - 1), @, "MM"),
            !.year = TokenValue(token, SubSeq(st.string, m.start, m.start + m.len - 1), @, "YYYY")]

\* The token loop of configFromStringAndFormat.
RECURSIVE ParseTokens(_, _)
ParseTokens(tokens, st) ==
    IF tokens = <<>> THEN st
    ELSE ParseTokens(Tail(tokens),
                     ConsumeToken(st, Head(tokens), MatchToken(Head(tokens), st.string)))

\* moment's isLeapYear and daysInMonth (month is 0-based)
IsLeapYear(year) == (year % 4 = 0 /\ year % 100 # 0) \/ year % 400 = 0

\* A variant without the case of February.
DaysInMonthNoFebruary(year, month) == 31 - ((month % 7) % 2)

DaysInMonth(year, month) ==
    IF month = 1 THEN (IF IsLeapYear(year) THEN 29 ELSE 28)
    ELSE 31 - ((month % 7) % 2)

\* moment's checkOverflow, for the month and the day of the month
Overflows(year, month, date) ==
    \/ month < 0 \/ month > 11
    \/ date < 1 \/ date > DaysInMonth(year, month)

\* moment.invalid()
InvalidMoment == [valid |-> FALSE, year |-> 0, month |-> 0, date |-> 0]

\* The validity moment derives in strict mode from the parsing flags.
MomentOf(st) ==
    IF /\ ~st.unusedTokens
       /\ ~st.unusedInput
       /\ st.string = <<>>
       /\ ~st.empty
       /\ ~Overflows(st.year, st.month, st.date)
    THEN [valid |-> TRUE, year |-> st.year, month |-> st.month, date |-> st.date]
    ELSE InvalidMoment

\* moment(value, "D/MM/YYYY", true)
StrictParseDate(value) ==
    MomentOf(ParseTokens(FormatTokens,
                         [string |-> value, unusedTokens |-> FALSE, unusedInput |-> FALSE,
                          empty |-> TRUE, date |-> 1, month |-> 0, year |-> 0]))

\* m.format("YYYY-MM-DD")
FormatIso(m) ==
    ZeroFill(m.year, 4) \o <<"-">> \o ZeroFill(m.month + 1, 2) \o <<"-">> \o ZeroFill(m.date, 2)

\* receivedDate.isValid() ? receivedDate.format("YYYY-MM-DD") : ""
ReceivedDateText(receivedDate) ==
    IF receivedDate.valid THEN FormatIso(receivedDate) ELSE <<>>

----------------------------------------------------------------------------
(* The record loop of getResults *)

\* A heading block of the page: the text of an h4.non_table_headers element, whether
\* its next sibling is a div, and the p.rowDataOnly rows found in that sibling, each
\* with the texts of its span.key and span.inputField children.
NoFields ==
    [applicationNumber |-> <<>>, description |-> <<>>, receivedDate |-> InvalidMoment,
     log |-> <<>>]

\* A variant that takes the description from the application number row.
ApplyKeyValueSwapped(fields, key, value) ==
    IF key = KeyApplicationNo
    THEN [fields EXCEPT !.description = value]
    ELSE IF key = KeyTypeOfWork
    THEN [fields EXCEPT !.applicationNumber = value,
                        !.log = Append(@, <<"Found", value>>)]
    ELSE IF key = KeyDateLodged
    THEN [fields EXCEPT !.receivedDate = StrictParseDate(value)]
    ELSE fields

\* The if / else-if chain on the trimmed key of one p.rowDataOnly paragraph.
ApplyKeyValue(fields, key, value) ==
    IF key = KeyTypeOfWork
    THEN [fields EXCEPT !.description = value]
    ELSE IF key = KeyApplicationNo
    THEN [fields EXCEPT !.applicationNumber = value,
                        !.log = Append(@, <<"Found", value>>)]
    ELSE IF key = KeyDateLodged
    THEN [fields EXCEPT !.receivedDate = StrictParseDate(value)]
    ELSE fields

\* One p.rowDataOnly paragraph: the texts of its two spans, trimmed.
ApplyRow(fields, row) == ApplyKeyValue(fields, Trim(row.key), Trim(row.value))

RECURSIVE ApplyRows(_, _)
ApplyRows(fields, rows) ==
    IF rows = <<>> THEN fields
    ELSE ApplyRows(ApplyRow(fields, Head(rows)), Tail(rows))

\* A variant that takes the rows of whatever follows the heading.
VisitedRowsOfAnySibling(header) == header.rows

\* $(headerElement).next("div") ... find("p.rowDataOnly"): the rows the loops visit
VisitedRows(header) == IF header.nextIsDiv THEN header.rows ELSE <<>>

\* A variant that stores the description as found.
NewApplicationAsFound(build, applicationNumber, address, description, scrapeDate, receivedDate) ==
    IF build = "ignore"
    THEN [applicationNumber |-> applicationNumber, address |-> address,
          description |-> description,
          informationUrl |-> DevelopmentApplicationMainUrl, commentUrl |-> CommentUrl,
          scrapeDate |-> scrapeDate, receivedDate |-> ReceivedDateText(receivedDate)]
    ELSE [applicationNumber |-> applicationNumber, address |-> address,
          description |-> description,
          informationUrl |-> DevelopmentApplicationMainUrl,
          scrapeDate |-> scrapeDate, receivedDate |-> ReceivedDateText(receivedDate)]

\* The object pushed onto developmentApplications; the older build adds commentUrl.
NewApplication(build, applicationNumber, address, description, scrapeDate, receivedDate) ==
    IF build = "ignore"
    THEN [applicationNumber |-> applicationNumber, address |-> address,
          description |-> IF description = <<>> THEN NoDescriptionProvided ELSE description,
          informationUrl |-> DevelopmentApplicationMainUrl, commentUrl |-> CommentUrl,
          scrapeDate |-> scrapeDate, receivedDate |-> ReceivedDateText(receivedDate)]
    ELSE [applicationNumber |-> applicationNumber, address |-> address,
          description |-> IF description = <<>> THEN NoDescriptionProvided ELSE description,
          informationUrl |-> DevelopmentApplicationMainUrl,
          scrapeDate |-> scrapeDate, receivedDate |-> ReceivedDateText(receivedDate)]

\* A variant that tests the application number only.
AcceptBlankAddress(build, address, fields, scrapeDate) ==
    IF fields.applicationNumber # <<>>
    THEN [pushed |-> <<NewApplication(build, fields.applicationNumber, address,
                                      fields.description, scrapeDate, fields.receivedDate)>>,
          log |-> fields.log]
    ELSE [pushed |-> <<>>, log |-> fields.log]

\* A variant that also wants a valid received date.
AcceptDated(build, address, fields, scrapeDate) ==
    IF fields.applicationNumber # <<>> /\ address = <<>>
    THEN [pushed |-> <<>>,
          log |-> Append(fields.log, <<"Ignoring", fields.applicationNumber>>)]
    ELSE IF fields.applicationNumber # <<>> /\ address # <<>> /\ fields.receivedDate.valid
    THEN [pushed |-> <<NewApplication(build, fields.applicationNumber, address,
                                      fields.description, scrapeDate, fields.receivedDate)>>,
          log |-> fields.log]
    ELSE [pushed |-> <<>>, log |-> fields.log]

\* The acceptance test after the rows of a heading: the records pushed (none or one)
\* and the messages printed for the heading.
Accept(build, address, fields, scrapeDate) ==
    IF fields.applicationNumber # <<>> /\ address = <<>>
    THEN [pushed |-> <<>>,
          log |-> Append(fields.log, <<"Ignoring", fields.applicationNumber>>)]
    ELSE IF fields.applicationNumber # <<>> /\ address # <<>>
    THEN [pushed |-> <<NewApplication(build, fields.applicationNumber, address,
                                      fields.description, scrapeDate, fields.receivedDate)>>,
          log |-> fields.log]
    ELSE [pushed |-> <<>>, log |-> fields.log]

\* One iteration of the loop over the headings.
ParseHeader(build, header, scrapeDate) ==
    Accept(build, NormalizeAddress(header.text), ApplyRows(NoFields, VisitedRows(header)),
           scrapeDate)

Concat(one, rest) == [pushed |-> one.pushed \o rest.pushed, log |-> one.log \o rest.log]

\* A variant whose accumulators are set once, before the loop over the headings.
RECURSIVE ParseHeadersCarrying(_, _, _, _)
ParseHeadersCarrying(build, headers, scrapeDate, carried) ==
    IF headers = <<>> THEN [pushed |-> <<>>, log |-> <<>>]
    ELSE LET fields == ApplyRows([carried EXCEPT !.log = <<>>], VisitedRows(Head(headers)))
         IN  Concat(Accept(build, NormalizeAddress(Head(headers).text), fields, scrapeDate),
                    ParseHeadersCarrying(build, Tail(headers), scrapeDate, fields))

ParseHeadersSharedFields(build, headers, scrapeDate) ==
    ParseHeadersCarrying(build, headers, scrapeDate, NoFields)

\* The whole loop: developmentApplications and the printed messages, in document order.
RECURSIVE ParseHeaders(_, _, _)
ParseHeaders(build, headers, scrapeDate) ==
    IF headers = <<>> THEN [pushed |-> <<>>, log |-> <<>>]
    ELSE Concat(ParseHeader(build, Head(headers), scrapeDate),
                ParseHeaders(build, Tail(headers), scrapeDate))

----------------------------------------------------------------------------
(* Dates of main and getRandom *)

\* moment().subtract(months, "months"): the month index moves back and the day of the
\* month is clamped to the length of the new month.
ClampDate(year, month, date, days) ==
    [year |-> year, month |-> month, date |-> IF date < days THEN date ELSE days]

MonthAt(total, date) ==
    ClampDate(total \div 12, total % 12, date, DaysInMonth(total \div 12, total % 12))

SubtractMonths(t, months) == MonthAt(t.year * 12 + t.month - months, t.date)

\* m.format("DD/MM/YYYY")
FormatDayFirst(m) ==
    ZeroFill(m.date, 2) \o <<"/">> \o ZeroFill(m.month + 1, 2) \o <<"/">> \o ZeroFill(m.year, 4)

\* A variant that counts the months from 1.
MonthCountFromOne(t) == t.year * 12 + (t.month + 1) - (2012 * 12 + 1)

\* moment().year() * 12 + moment().month() - (2012 * 12 + 1)
MonthCount(t) == t.year * 12 + t.month - (2012 * 12 + 1)

\* getRandom(minimum, maximum) for integer arguments, with Math.random() = k / RandomResolution
RandomResolution == 100

\* A variant whose range includes the maximum: [minimum, maximum].
GetRandomInclusive(minimum, maximum, k) ==
    ((k * (maximum - minimum + 1)) \div RandomResolution) + minimum

GetRandom(minimum, maximum, k) ==
    ((k * (maximum - minimum)) \div RandomResolution) + minimum

----------------------------------------------------------------------------
(* The store *)

\* The values insertRow binds, as the columns of table [data].
RowOf(build, application) ==
    IF build = "ignore"
    THEN [council_reference |-> application.applicationNumber,
          address |-> application.address, description |-> application.description,
          info_url |-> application.informationUrl, comment_url |-> application.commentUrl,
          date_scraped |-> application.scrapeDate, date_received |-> application.receivedDate]
    ELSE [council_reference |-> application.applicationNumber,
          address |-> application.address, description |-> application.description,
          info_url |-> application.informationUrl,
          date_scraped |-> application.scrapeDate, date_received |-> application.receivedDate]

Put(rows, row) ==
    [r \in (DOMAIN rows) \cup {row.council_reference} |->
        IF r = row.council_reference THEN row ELSE rows[r]]

\* Variants with one conflict policy for both builds.
UpsertAlwaysReplace(build, rows, row) == Put(rows, row)
UpsertAlwaysIgnore(build, rows, row) ==
    IF row.council_reference \in DOMAIN rows THEN rows ELSE Put(rows, row)

\* "insert or replace into [data] values (...)" / "insert or ignore into [data] values (...)"
Upsert(build, rows, row) ==
    IF build = "ignore" /\ row.council_reference \in DOMAIN rows
    THEN rows
    ELSE Put(rows, row)

\* A variant that does not look at the number of changed rows.
SavedMessageOfAnyChange(build, rows, row) ==
    IF build = "ignore"
    THEN <<"Inserted", row.council_reference>>
    ELSE <<"Saved", row.council_reference>>

\* What the callback of sqlStatement.run prints on success.
SavedMessage(build, rows, row) ==
    IF build = "ignore"
    THEN (IF row.council_reference \in DOMAIN rows
          THEN <<"Skipped", row.council_reference>>
          ELSE <<"Inserted", row.council_reference>>)
    ELSE <<"Saved", row.council_reference>>

\* The kind of the message of a successful upsert, and whether the reference was in
\* the table before it.
Outcome(build, rows, row) ==
    [message |-> SavedMessage(build, rows, row)[1],
     present |-> row.council_reference \in DOMAIN rows]

----------------------------------------------------------------------------
(* Inputs of the program *)

Row(key, value) == [key |-> key, value |-> value]
Header(headerText, nextIsDiv, rows) ==
    [text |-> headerText, nextIsDiv |-> nextIsDiv, rows |-> rows]

\* Pages the council's server may answer a search with.
PageEmpty == <<>>
PageOne ==
    <<Header(<<"a">>, TRUE,
             <<Row(KeyTypeOfWork, <<"S">>), Row(KeyApplicationNo, <<"1">>),
               Row(KeyDateLodged, <<"3", "/", "0", "4", "/", "2", "0", "1", "9">>)>>)>>
PageOneChanged ==
    <<Header(<<" ", "b", " ", " ", "c", "\n">>, TRUE,
             <<Row(KeyApplicationNo, <<"1">>), Row(KeyDateLodged, <<"?">>)>>)>>
PageSkipped ==
    <<Header(<<" ", "\t">>, TRUE, <<Row(KeyApplicationNo, <<"2">>)>>),
      Header(<<"a">>, TRUE, <<Row(KeyTypeOfWork, <<"S">>)>>)>>
PageTwo ==
    <<Header(<<"a">>, TRUE, <<Row(KeyApplicationNo, <<"1">>)>>),
      Header(<<"b">>, TRUE,
             <<Row(KeyApplicationNo, <<"2">>), Row(KeyTypeOfWork, <<>>)>>)>>

Pages == {PageEmpty, PageOne, PageOneChanged, PageSkipped, PageTwo}

\* Days on which the program is started (month is 0-based, as moment().month()).
April2019 == [year |-> 2019, month |-> 3, date |-> 15]
March2012 == [year |-> 2012, month |-> 2, date |-> 31]
Todays == {March2012, April2019}

NotBefore(t, u) ==
    \/ t.year > u.year
    \/ t.year = u.year /\ t.month > u.month
    \/ t.year = u.year /\ t.month = u.month /\ t.date >= u.date

MaxRuns == 2

----------------------------------------------------------------------------
(* main *)

NoTable == [exists |-> FALSE, rows |-> <<>>]

Init ==
    /\ program \in {"replace", "ignore"}
    /\ pc = "start"
    /\ cycle = 0
    /\ today \in Todays
    /\ randomMonth = 0
    /\ body = <<>>
    /\ developmentApplications = <<>>
    /\ insertIndex = 0
    /\ database = NoTable
    /\ console = <<>>
    /\ firstInserted = <<>>
    /\ lastInserted = <<>>
    /\ runs = 1
    /\ ddl = "none"
    /\ jar = [id |-> 0, cookie |-> FALSE]
    /\ requests = <<>>
    /\ timer = 0
    /\ statements = 0
    /\ text = <<>>
    /\ result = <<>>
    /\ exited = <<>>
    /\ outcomes = {}

\* The range of a cycle: [one month ago, today], then
\* [randomMonth + 1 months ago, randomMonth months ago].
DateFrom(c, t, months) == IF c = 1 THEN SubtractMonths(t, 1) ELSE SubtractMonths(t, months + 1)
DateTo(c, t, months) == IF c = 1 THEN t ELSE SubtractMonths(t, months)

\* A variant that keeps one cookie jar for the whole invocation.
CallGetResultsSharedJar(c, months) ==
    /\ cycle' = c
    /\ randomMonth' = months
    /\ jar' = jar
    /\ requests' = Append(requests, [url |-> "main", jar |-> jar.id, cookie |-> jar.cookie,
                                     dateFrom |-> <<>>, dateTo |-> <<>>])
    /\ pc' = "landing"

\* getResults up to its first await: a new cookie jar and the request of the main page.
CallGetResults(c, months) ==
    /\ cycle' = c
    /\ randomMonth' = months
    /\ jar' = [id |-> jar.id + 1, cookie |-> FALSE]
    /\ requests' = Append(requests, [url |-> "main", jar |-> jar.id + 1, cookie |-> FALSE,
                                     dateFrom |-> <<>>, dateTo |-> <<>>])
    /\ pc' = "landing"

\* main after the records of a cycle are stored: the random other month, or the end.
EndOfCycle(printed) ==
    IF cycle = 1
    THEN /\ \E k \in 0..(RandomResolution - 1) :
                CallGetResults(2, GetRandom(1, MonthCount(today) + 1, k))
         /\ console' = printed
         /\ exited' = exited
    ELSE /\ pc' = "done"
         /\ console' = Append(printed, <<"Complete.">>)
         /\ exited' = <<0>>
         /\ UNCHANGED <<cycle, randomMonth, jar, requests>>

\* main: initializeDatabase queues the create-table statement and resolves at once;
\* main goes on into getResults for the last month.
StartMain ==
    /\ pc = "start"
    /\ ddl' = "queued"
    /\ CallGetResults(1, 0)
    /\ UNCHANGED <<program, today, body, developmentApplications, insertIndex, database,
                   console, firstInserted, lastInserted, runs, timer, statements, text,
                   result, exited, outcomes>>

\* A variant that creates the table anew.
CreateTableAnew ==
    /\ ddl = "queued"
    /\ ddl' = "done"
    /\ database' = [exists |-> TRUE, rows |-> <<>>]
    /\ UNCHANGED <<program, pc, cycle, today, randomMonth, body, developmentApplications,
                   insertIndex, console, firstInserted, lastInserted, runs, jar, requests,
                   timer, statements, text, result, exited, outcomes>>

\* "create table if not exists [data] (...)" is executed.
CreateTableCompletes ==
    /\ ddl = "queued"
    /\ ddl' = "done"
    /\ database' = [database EXCEPT !.exists = TRUE]
    /\ UNCHANGED <<program, pc, cycle, today, randomMonth, body, developmentApplications,
                   insertIndex, console, firstInserted, lastInserted, runs, jar, requests,
                   timer, statements, text, result, exited,
                   outcomes>>

\* The main page answers: the jar holds the session cookie, sleep() is started.
LandingResponds ==
    /\ pc = "landing"
    /\ jar' = [jar EXCEPT !.cookie = TRUE]
    /\ \E k \in 0..(RandomResolution - 1) : timer' = 2000 + GetRandom(0, 5, k) * 1000
    /\ pc' = "sleeping"
    /\ UNCHANGED <<program, cycle, today, randomMonth, body, developmentApplications,
                   insertIndex, database, console, firstInserted, lastInserted, runs, ddl,
                   requests, statements, text, result, exited,
                   outcomes>>

\* A variant that prints the error and issues the rejected request once more.
RequestFailsAndRetries ==
    /\ pc \in {"landing", "search"}
    /\ Len(requests) < 5
    /\ pc' = pc
    /\ console' = Append(console, <<"error", pc>>)
    /\ requests' = Append(requests, requests[Len(requests)])
    /\ UNCHANGED <<program, cycle, today, randomMonth, body, developmentApplications,
                   insertIndex, database, firstInserted, lastInserted, runs, ddl, jar,
                   timer, statements, text, result, exited,
                   outcomes>>

\* A request is rejected: main rejects, the catch of line 158 prints the error and
\* returns, so the promise chain is fulfilled and the process ends with exit code 0.
RequestFails ==
    /\ pc \in {"landing", "search"}
    /\ pc' = "failed"
    /\ console' = Append(console, <<"error", pc>>)
    /\ exited' = <<0>>
    /\ UNCHANGED <<program, cycle, today, randomMonth, body, developmentApplications,
                   insertIndex, database, firstInserted, lastInserted, runs, ddl, jar,
                   requests, timer, statements, text, result, outcomes>>

\* The timer fires: the search URL is built and requested with the same jar.
SleepElapses ==
    /\ pc = "sleeping"
    /\ timer' = 0
    /\ requests' = Append(requests,
            [url |-> "search", jar |-> jar.id, cookie |-> jar.cookie,
             dateFrom |-> FormatDayFirst(DateFrom(cycle, today, randomMonth)),
             dateTo |-> FormatDayFirst(DateTo(cycle, today, randomMonth))])
    /\ pc' = "search"
    /\ UNCHANGED <<program, cycle, today, randomMonth, body, developmentApplications,
                   insertIndex, database, console, firstInserted, lastInserted, runs, ddl,
                   jar, statements, text, result, exited,
                   outcomes>>

\* getResults returns the records of the page; main prints the count and calls
\* insertRow for the first record, or goes on when there is none.
ReturnResults(page, parsed) ==
    /\ body' = page
    /\ developmentApplications' = parsed.pushed
    /\ IF parsed.pushed = <<>>
       THEN /\ insertIndex' = 0
            /\ statements' = statements
            /\ EndOfCycle(Append(parsed.log, <<"Inserting", 0>>))
       ELSE /\ insertIndex' = 1
            /\ statements' = statements + 1
            /\ pc' = "insert"
            /\ console' = Append(parsed.log, <<"Inserting", Len(parsed.pushed)>>)
            /\ UNCHANGED <<cycle, randomMonth, jar, requests, exited>>

\* The search answers with a page, which getResults parses.
SearchResponds ==
    /\ pc = "search"
    /\ \E page \in Pages : ReturnResults(page, ParseHeaders(program, page, FormatIso(today)))
    /\ UNCHANGED <<program, today, database, firstInserted, lastInserted, runs, ddl, timer,
                   text, result, outcomes>>

\* A variant that goes on after the first record of a cycle is stored.
RowStoredOnce(row) ==
    /\ database' = [database EXCEPT !.rows = Upsert(program, @, row)]
    /\ firstInserted' = IF row.council_reference \in DOMAIN firstInserted
                        THEN firstInserted
                        ELSE Put(firstInserted, row)
    /\ lastInserted' = Put(lastInserted, row)
    /\ outcomes' = outcomes \cup {Outcome(program, database.rows, row)}
    /\ insertIndex' = 0
    /\ statements' = statements - 1
    /\ EndOfCycle(Append(console, SavedMessage(program, database.rows, row)))

\* The callback of sqlStatement.run without error, for the bound row: the row is
\* stored (or ignored), the message printed, the statement finalized; main calls
\* insertRow for the next record or ends the cycle.
RowStored(row) ==
    /\ database' = [database EXCEPT !.rows = Upsert(program, @, row)]
    /\ firstInserted' = IF row.council_reference \in DOMAIN firstInserted
                        THEN firstInserted
                        ELSE Put(firstInserted, row)
    /\ lastInserted' = Put(lastInserted, row)
    /\ outcomes' = outcomes \cup {Outcome(program, database.rows, row)}
    /\ IF insertIndex < Len(developmentApplications)
       THEN /\ insertIndex' = insertIndex + 1
            /\ statements' = statements - 1 + 1
            /\ console' = Append(console, SavedMessage(program, database.rows, row))
            /\ UNCHANGED <<pc, cycle, randomMonth, jar, requests, exited>>
       ELSE /\ insertIndex' = 0
            /\ statements' = statements - 1
            /\ EndOfCycle(Append(console, SavedMessage(program, database.rows, row)))

\* The statement of insertRow runs without error.
InsertRowSucceeds ==
    /\ pc = "insert"
    /\ ddl = "done"
    /\ RowStored(RowOf(program, developmentApplications[insertIndex]))
    /\ UNCHANGED <<program, today, body, developmentApplications, runs, ddl, timer, text,
                   result>>

\* The statement fails: insertRow prints the error and rejects without finalizing;
\* main rejects and the catch of line 158 prints the error again; the process ends
\* with exit code 0.
InsertRowFails ==
    /\ pc = "insert"
    /\ ddl = "done"
    /\ pc' = "failed"
    /\ console' = console \o <<<<"error", "insertRow">>, <<"error", "insertRow">>>>
    /\ exited' = <<0>>
    /\ UNCHANGED <<program, cycle, today, randomMonth, body, developmentApplications,
                   insertIndex, database, firstInserted, lastInserted, runs, ddl, jar,
                   requests, timer, statements, text, result, outcomes>>

\* The process has ended; the scheduler starts it again, on the same day or later,
\* with the same data.sqlite.
Restart ==
    /\ pc \in {"done", "failed"}
    /\ ddl = "done"
    /\ runs < MaxRuns
    /\ runs' = runs + 1
    /\ today' \in {t \in Todays : NotBefore(t, today)}
    /\ pc' = "start"
    /\ cycle' = 0
    /\ randomMonth' = 0
    /\ body' = <<>>
    /\ developmentApplications' = <<>>
    /\ insertIndex' = 0
    /\ console' = <<>>
    /\ ddl' = "none"
    /\ jar' = [id |-> 0, cookie |-> FALSE]
    /\ requests' = <<>>
    /\ timer' = 0
    /\ statements' = 0
    /\ exited' = <<>>
    /\ UNCHANGED <<program, database, firstInserted, lastInserted, text, result,
                   outcomes>>

Next ==
    \/ StartMain
    \/ CreateTableCompletes
    \/ LandingResponds
    \/ RequestFails
    \/ SleepElapses
    \/ SearchResponds
    \/ InsertRowSucceeds
    \/ InsertRowFails
    \/ Restart

Spec == Init /\ [][Next]_vars

----------------------------------------------------------------------------
(* Harnesses of the pure parts: address normalization, date parsing, the record loop *)

\* The variables of main at rest, while a pure part is exercised on its own.
MainAtRest ==
    /\ cycle = 0
    /\ randomMonth = 0
    /\ insertIndex = 0
    /\ database = NoTable
    /\ firstInserted = <<>>
    /\ lastInserted = <<>>
    /\ runs = 0
    /\ ddl = "none"
    /\ jar = [id |-> 0, cookie |-> FALSE]
    /\ requests = <<>>
    /\ timer = 0
    /\ statements = 0
    /\ exited = <<>>
    /\ outcomes = {}

\* Heading texts: every text of at most MaxTextLen characters over three white-space
\* characters and a letter.
MaxTextLen == 5
TextAlphabet == {" ", "\t", "\n", "a"}
HeaderTexts == UNION {[1..n -> TextAlphabet] : n \in 0..MaxTextLen}

InitAddress ==
    /\ MainAtRest
    /\ program = "replace"
    /\ today = April2019
    /\ pc = "text"
    /\ text \in HeaderTexts
    /\ result = <<>>
    /\ body = <<>>
    /\ developmentApplications = <<>>
    /\ console = <<>>

\* let address = $(headerElement).text().trim().replace(/\s\s+/g, " ")
NormalizeHeaderText ==
    /\ pc = "text"
    /\ result' = NormalizeAddress(text)
    /\ pc' = "normalized"
    /\ UNCHANGED <<program, cycle, today, randomMonth, body, developmentApplications,
                   insertIndex, database, console, firstInserted, lastInserted, runs, ddl,
                   jar, requests, timer, statements, text, exited, outcomes>>

SpecAddress == InitAddress /\ [][NormalizeHeaderText]_vars

\* 'Date Lodged' values: a day, a month and a year written with and without leading
\* zeros, joined by "/" or "-", with and without characters around them, and some
\* values that are no dates at all.
MaxDay == 32
MaxMonth == 13
Years == {1900, 2000, 2012, 2019, 2020}
DayTexts == {ZeroFill(d, w) : d \in 0..MaxDay, w \in 1..2}
MonthTexts == {ZeroFill(m, w) : m \in 0..MaxMonth, w \in 1..2}
YearTexts == {ZeroFill(y, 4) : y \in Years} \cup {<<"1", "9">>, <<"2", "0", "1", "9", "0">>}
Separators == {<<"/">>, <<"-">>}
Prefixes == {<<>>, <<"x">>}
Suffixes == {<<>>, <<" ">>, <<"x">>}
NotADate == <<"n", "o", "t", "-", "a", "-", "d", "a", "t", "e">>
DateValues ==
    {p \o d \o sep \o m \o sep \o y \o q :
        p \in Prefixes, d \in DayTexts, sep \in Separators, m \in MonthTexts,
        y \in YearTexts, q \in Suffixes}
    \cup {<<>>, NotADate, <<"3", "/", "0", "4">>, <<"/", "/">>}

InitDate ==
    /\ MainAtRest
    /\ program = "replace"
    /\ today = April2019
    /\ pc = "value"
    /\ text \in DateValues
    /\ result = <<>>
    /\ body = <<>>
    /\ developmentApplications = <<>>
    /\ console = <<>>

Parsed(receivedDate) ==
    [isValid |-> receivedDate.valid, formatted |-> ReceivedDateText(receivedDate)]

\* receivedDate = moment(value, "D/MM/YYYY", true), then
\* receivedDate.isValid() ? receivedDate.format("YYYY-MM-DD") : ""
ParseDateLodged ==
    /\ pc = "value"
    /\ result' = Parsed(StrictParseDate(text))
    /\ pc' = "formatted"
    /\ UNCHANGED <<program, cycle, today, randomMonth, body, developmentApplications,
                   insertIndex, database, console, firstInserted, lastInserted, runs, ddl,
                   jar, requests, timer, statements, text, exited, outcomes>>

SpecDate == InitDate /\ [][ParseDateLodged]_vars

\* Pages for the record loop: one heading with any of the header texts below, with or
\* without a div as next sibling, and at most MaxRows rows drawn from RowChoices; and
\* pages of two headings drawn from TwoHeaders.
MaxRows == 3
SmithSt ==
    <<"1", "2", " ", "S", "m", "i", "t", "h", " ", "S", "t", ",", " ", "L", "o", "x", "t", "o", "n">>
SmithStPadded ==
    <<" ", "1", "2", " ", " ", "S", "m", "i", "t", "h", " ", "S", "t", ",", " ", "L", "o", "x",
      "t", "o", "n", "\n">>
Shed == <<"S", "h", "e", "d">>
Reference45 == <<"2", "0", "1", "9", "/", "0", "0", "4", "5">>
Lodged3April == <<"3", "/", "0", "4", "/", "2", "0", "1", "9">>
Lodged31February == <<"3", "1", "/", "0", "2", "/", "2", "0", "1", "9">>
PageHeaderTexts == {<<>>, <<" ", "\t">>, SmithSt, SmithStPadded}
RowChoices ==
    {Row(KeyTypeOfWork, Shed), Row(KeyTypeOfWork, <<"\t", "D", "\n">>),
     Row(KeyTypeOfWork, <<" ">>),
     Row(KeyApplicationNo, Reference45), Row(KeyApplicationNo, <<" ", "7", " ">>),
     Row(KeyApplicationNo, <<>>),
     Row(KeyDateLodged, Lodged3April), Row(KeyDateLodged, NotADate),
     Row(KeyDateLodged, Lodged31February),
     Row(<<"\n">> \o KeyApplicationNo \o <<" ">>, <<"8">>),
     Row(<<"L", "o", "t">>, <<"9">>)}
RowLists == UNION {[1..n -> RowChoices] : n \in 0..MaxRows}
TwoHeaders ==
    {Header(SmithSt, TRUE, <<Row(KeyApplicationNo, Reference45), Row(KeyTypeOfWork, Shed),
                             Row(KeyDateLodged, Lodged3April)>>),
     Header(SmithStPadded, TRUE, <<Row(KeyApplicationNo, <<"7">>)>>),
     Header(<<" ">>, TRUE, <<Row(KeyApplicationNo, <<"8">>), Row(KeyTypeOfWork, <<"D">>),
                             Row(KeyDateLodged, Lodged3April)>>),
     Header(<<"a">>, TRUE, <<Row(KeyTypeOfWork, <<"D">>), Row(KeyDateLodged, Lodged3April)>>),
     Header(<<"a">>, FALSE, <<Row(KeyApplicationNo, <<"9">>)>>),
     Header(<<"b">>, TRUE, <<>>)}
HarnessPages ==
    {<<Header(t, d, rows)>> : t \in PageHeaderTexts, d \in BOOLEAN, rows \in RowLists}
    \cup {<<g, h>> : g \in TwoHeaders, h \in TwoHeaders}

InitPage ==
    /\ MainAtRest
    /\ program \in {"replace", "ignore"}
    /\ today = April2019
    /\ pc = "page"
    /\ body \in HarnessPages
    /\ developmentApplications = <<>>
    /\ console = <<>>
    /\ text = <<>>
    /\ result = <<>>

Returned(parsed) ==
    /\ developmentApplications' = parsed.pushed
    /\ console' = parsed.log

\* The loop over $("h4.non_table_headers") of getResults, on a loaded page.
ParsePage ==
    /\ pc = "page"
    /\ Returned(ParseHeaders(program, body, FormatIso(today)))
    /\ pc' = "parsed"
    /\ UNCHANGED <<program, cycle, today, randomMonth, body, insertIndex, database,
                   firstInserted, lastInserted, runs, ddl, jar, requests, timer, statements,
                   text, result, exited, outcomes>>

SpecPage == InitPage /\ [][ParsePage]_vars

----------------------------------------------------------------------------
(* Harness of the range of the second cycle (main, lines 149 to 152) *)

\* Days on which the program may be started: the first and the last days of every
\* month of some years from March 2012 on (2012 and 2020 are leap years).
StartYears == {2012, 2013, 2019, 2020}
StartDates == {1, 15, 28, 29, 30, 31}
StartDays ==
    {[year |-> y, month |-> m, date |-> d] : y \in StartYears, m \in 0..11, d \in StartDates}
AfterFebruary2012 ==
    {t \in StartDays : /\ t.date <= DaysInMonth(t.year, t.month)
                       /\ t.year * 12 + t.month >= 2012 * 12 + 2}

InitRange ==
    /\ MainAtRest
    /\ program = "replace"
    /\ today \in AfterFebruary2012
    /\ pc = "today"
    /\ text = <<>>
    /\ result = <<>>
    /\ body = <<>>
    /\ developmentApplications = <<>>
    /\ console = <<>>

\* let monthCount = ...; let randomMonth = getRandom(1, monthCount + 1);
\* getResults(moment().subtract(randomMonth + 1, "months"), moment().subtract(randomMonth, "months"))
Ranged(months) ==
    /\ randomMonth' = months
    /\ result' = [dateFrom |-> DateFrom(2, today, months), dateTo |-> DateTo(2, today, months)]

DrawRandomMonth ==
    /\ pc = "today"
    /\ \E k \in 0..(RandomResolution - 1) : Ranged(GetRandom(1, MonthCount(today) + 1, k))
    /\ pc' = "ranged"
    /\ UNCHANGED <<program, cycle, today, body, developmentApplications, insertIndex,
                   database, console, firstInserted, lastInserted, runs, ddl, jar, requests,
                   timer, statements, text, exited, outcomes>>

SpecRange == InitRange /\ [][DrawRandomMonth]_vars

----------------------------------------------------------------------------
(* Properties: address normalization *)

IsSpace(c) == c \in WhiteSpace

\* What the normalization is to yield, stated on the positions of the text: of the
\* characters from the first to the last non-space one, every non-space character and
\* every single space character is kept, and of every run of two or more space
\* characters only the first position is kept, holding one " ".
CollapsedText(t) ==
    LET solid == {i \in 1..Len(t) : ~IsSpace(t[i])}
        kept == {i \in 1..Len(t) :
                    /\ \E j \in solid : j <= i
                    /\ \E j \in solid : j >= i
                    /\ (IsSpace(t[i]) => ~IsSpace(t[i - 1]))}
        at(k) == CHOOSE i \in kept : Cardinality({j \in kept : j <= i}) = k
        char(i) == IF IsSpace(t[i]) /\ IsSpace(t[i + 1]) THEN " " ELSE t[i]
    IN  [k \in 1..Cardinality(kept) |-> char(at(k))]

\* C7: the normalized address is the heading text trimmed at both ends with every run of
\* two or more white-space characters collapsed to one space; it neither starts nor ends
\* with white space, holds no two consecutive white-space characters, and normalizing it
\* again changes nothing.
AddressNormalized ==
    pc = "normalized" =>
        /\ result = CollapsedText(text)
        /\ result # <<>> => ~IsSpace(result[1]) /\ ~IsSpace(result[Len(result)])
        /\ \A i \in 1..(Len(result) - 1) : ~(IsSpace(result[i]) /\ IsSpace(result[i + 1]))
        /\ NormalizeAddress(result) = result

\* A padded text with an interior run of a tab and a line feed has been normalized.
AddressNormalizedWitness ==
    /\ pc = "normalized"
    /\ text = <<" ", "a", "\t", "\n", "a">>
    /\ result = <<"a", " ", "a">>

----------------------------------------------------------------------------
(* Properties: the 'Date Lodged' value *)

Decimal(s) ==
    CASE Len(s) = 1 -> DigitValue(s[1])
      [] Len(s) = 2 -> 10 * DigitValue(s[1]) + DigitValue(s[2])
      [] Len(s) = 4 -> 1000 * DigitValue(s[1]) + 100 * DigitValue(s[2])
                       + 10 * DigitValue(s[3]) + DigitValue(s[4])

AllDigits(s) == \A i \in 1..Len(s) : s[i] \in Digits

\* The length of the day part of a value of the shape D/MM/YYYY or DD/MM/YYYY; 0 for
\* any other value.
DayWidth(v) ==
    IF \E n \in 1..2 :
            /\ Len(v) = n + 8
            /\ AllDigits(SubSeq(v, 1, n))
            /\ v[n + 1] = "/"
            /\ AllDigits(SubSeq(v, n + 2, n + 3))
            /\ v[n + 4] = "/"
            /\ AllDigits(SubSeq(v, n + 5, n + 8))
    THEN Len(v) - 8
    ELSE 0

HasDateShape(v) == DayWidth(v) > 0
DayOf(v) == Decimal(SubSeq(v, 1, DayWidth(v)))
MonthOf(v) == Decimal(SubSeq(v, DayWidth(v) + 2, DayWidth(v) + 3))
YearOf(v) == Decimal(SubSeq(v, DayWidth(v) + 5, DayWidth(v) + 8))

LengthOfMonth(year, month) ==
    CASE month \in {4, 6, 9, 11} -> 30
      [] month = 2 -> IF year % 4 = 0 /\ (year % 100 # 0 \/ year % 400 = 0) THEN 29 ELSE 28
      [] OTHER -> 31

\* The value has the shape and names a day of the calendar.
IsCalendarDate(v) ==
    /\ HasDateShape(v)
    /\ MonthOf(v) \in 1..12
    /\ DayOf(v) \in 1..LengthOfMonth(YearOf(v), MonthOf(v))

\* iso is YYYY-MM-DD of the year, month and day written in v.
SameCalendarDate(v, iso) ==
    /\ Len(iso) = 10
    /\ iso[5] = "-" /\ iso[8] = "-"
    /\ AllDigits(SubSeq(iso, 1, 4)) /\ AllDigits(SubSeq(iso, 6, 7)) /\ AllDigits(SubSeq(iso, 9, 10))
    /\ Decimal(SubSeq(iso, 1, 4)) = YearOf(v)
    /\ Decimal(SubSeq(iso, 6, 7)) = MonthOf(v)
    /\ Decimal(SubSeq(iso, 9, 10)) = DayOf(v)

\* C4, as amended: a value of the shape D/MM/YYYY or DD/MM/YYYY that names a day of the
\* calendar parses and is formatted as the same date, YYYY-MM-DD; every other value,
\* a value of that shape naming no day of the calendar included, parses to the invalid
\* moment and is formatted as the empty text.
DateRoundTrip ==
    pc = "formatted" =>
        IF IsCalendarDate(text)
        THEN result.isValid /\ SameCalendarDate(text, result.formatted)
        ELSE ~result.isValid /\ result.formatted = <<>>

\* C4, as claimed: every value of the shape D/MM/YYYY or DD/MM/YYYY parses and is
\* formatted as the same date; every other value is formatted as the empty text.
DateRoundTripAnyShape ==
    pc = "formatted" =>
        IF HasDateShape(text)
        THEN result.isValid /\ SameCalendarDate(text, result.formatted)
        ELSE ~result.isValid /\ result.formatted = <<>>

\* 3/04/2019 has been parsed and formatted as 2019-04-03.
DateRoundTripWitness ==
    /\ pc = "formatted"
    /\ text = Lodged3April
    /\ result.isValid
    /\ result.formatted = <<"2", "0", "1", "9", "-", "0", "4", "-", "0", "3">>

----------------------------------------------------------------------------
(* Properties: the record loop *)

\* The rows under a heading that carry the key, by position; the trimmed value of the
\* last of them, the empty text when there is none.
RowsWith(h, key) ==
    {i \in 1..Len(h.rows) : h.nextIsDiv /\ Trim(h.rows[i].key) = key}

ValueOf(h, key) ==
    IF RowsWith(h, key) = {} THEN <<>>
    ELSE Trim(h.rows[CHOOSE i \in RowsWith(h, key) : \A j \in RowsWith(h, key) : j <= i].value)

\* The headings that are to give a record: a reference and a text that is not blank.
Emits(h) ==
    /\ ValueOf(h, KeyApplicationNo) # <<>>
    /\ \E i \in 1..Len(h.text) : ~IsSpace(h.text[i])

EmittingHeaders == SelectSeq(body, Emits)

\* C2: the description of an emitted record is never empty: it is the placeholder when
\* the heading has no 'Type of Work' row or the trimmed value of that row is empty, and
\* the trimmed 'Type of Work' value otherwise.
DescriptionNeverEmpty ==
    pc = "parsed" =>
        /\ Len(developmentApplications) = Len(EmittingHeaders)
        /\ \A i \in 1..Len(developmentApplications) :
            /\ developmentApplications[i].description # <<>>
            /\ developmentApplications[i].description =
                  IF ValueOf(EmittingHeaders[i], KeyTypeOfWork) = <<>>
                  THEN NoDescriptionProvided
                  ELSE ValueOf(EmittingHeaders[i], KeyTypeOfWork)

\* A heading whose 'Type of Work' row holds only white space gave a record with the
\* placeholder.
DescriptionNeverEmptyWitness ==
    /\ pc = "parsed"
    /\ Len(body) = 1
    /\ RowsWith(body[1], KeyTypeOfWork) # {}
    /\ ValueOf(body[1], KeyTypeOfWork) = <<>>
    /\ Len(developmentApplications) = 1
    /\ developmentApplications[1].description = NoDescriptionProvided

\* A page of one heading followed by a div with exactly three rows, one 'Type of Work',
\* one 'Application No.' with a non-empty value, one 'Date Lodged' naming a day of the
\* calendar.
FixtureShape ==
    /\ Len(body) = 1
    /\ body[1].nextIsDiv
    /\ Len(body[1].rows) = 3
    /\ \A key \in {KeyTypeOfWork, KeyApplicationNo, KeyDateLodged} :
            Cardinality(RowsWith(body[1], key)) = 1
    /\ ValueOf(body[1], KeyApplicationNo) # <<>>
    /\ IsCalendarDate(ValueOf(body[1], KeyDateLodged))

\* C3, as amended: on such a page whose heading text is not blank, extraction yields
\* exactly one record: address = the heading text normalized, description = d, or the
\* placeholder when d is empty, referenceNumber = r, receivedDate = the date as
\* YYYY-MM-DD (d, r and the date being the trimmed values of the rows).
FixtureRecord ==
    (pc = "parsed" /\ FixtureShape /\ CollapsedText(body[1].text) # <<>>) =>
        /\ Len(developmentApplications) = 1
        /\ developmentApplications[1].address = CollapsedText(body[1].text)
        /\ developmentApplications[1].description =
              IF ValueOf(body[1], KeyTypeOfWork) = <<>> THEN NoDescriptionProvided
              ELSE ValueOf(body[1], KeyTypeOfWork)
        /\ developmentApplications[1].applicationNumber = ValueOf(body[1], KeyApplicationNo)
        /\ SameCalendarDate(ValueOf(body[1], KeyDateLodged),
                            developmentApplications[1].receivedDate)

\* C3, as claimed: on such a page whose heading text is not empty, extraction yields
\* exactly one record with address = the heading text, description = d,
\* referenceNumber = r and receivedDate = the date as YYYY-MM-DD.
FixtureRecordVerbatim ==
    (pc = "parsed" /\ FixtureShape /\ body[1].text # <<>>) =>
        /\ Len(developmentApplications) = 1
        /\ developmentApplications[1].address = body[1].text
        /\ developmentApplications[1].description = ValueOf(body[1], KeyTypeOfWork)
        /\ developmentApplications[1].applicationNumber = ValueOf(body[1], KeyApplicationNo)
        /\ SameCalendarDate(ValueOf(body[1], KeyDateLodged),
                            developmentApplications[1].receivedDate)

\* The fixture of the end-to-end scenario has been extracted.
FixtureRecordWitness ==
    /\ pc = "parsed"
    /\ body = <<Header(SmithSt, TRUE,
                       <<Row(KeyTypeOfWork, Shed), Row(KeyApplicationNo, Reference45),
                         Row(KeyDateLodged, Lodged3April)>>)>>
    /\ Len(developmentApplications) = 1
    /\ developmentApplications[1].address = SmithSt
    /\ developmentApplications[1].description = Shed
    /\ developmentApplications[1].applicationNumber = Reference45
    /\ developmentApplications[1].receivedDate =
          <<"2", "0", "1", "9", "-", "0", "4", "-", "0", "3">>

\* The heading with the value of every 'Date Lodged' row replaced.
WithDateLodged(h, value) ==
    [h EXCEPT !.rows = [i \in 1..Len(h.rows) |->
                            IF Trim(h.rows[i].key) = KeyDateLodged
                            THEN Row(h.rows[i].key, value) ELSE h.rows[i]]]

Unparseable ==
    {NotADate, <<>>, Lodged31February, <<"3", "/", "4", "/", "2", "0", "1", "9">>,
     <<"2", "0", "1", "9", "-", "0", "4", "-", "0", "3">>}

\* C5: a 'Date Lodged' value that does not parse never costs the record: a heading that
\* gives a record gives, with its date value replaced by an unparseable one, the same
\* record with the empty receivedDate; and a heading with a reference and an address
\* whose own date value is no date, or which has no date row, gives its record with the
\* empty receivedDate.
DateNeverAborts ==
    (pc = "parsed" /\ Len(body) = 1) =>
        /\ developmentApplications # <<>> =>
            \A u \in Unparseable :
                ParseHeader(program, WithDateLodged(body[1], u), FormatIso(today)).pushed
                    = <<[developmentApplications[1] EXCEPT !.receivedDate = <<>>]>>
        /\ (Emits(body[1]) /\ ~IsCalendarDate(ValueOf(body[1], KeyDateLodged))) =>
            /\ Len(developmentApplications) = 1
            /\ developmentApplications[1].receivedDate = <<>>
            /\ developmentApplications[1].applicationNumber = ValueOf(body[1], KeyApplicationNo)
            /\ developmentApplications[1].address = CollapsedText(body[1].text)

\* The fixture with "not-a-date" as its date gave its record with the empty receivedDate.
DateNeverAbortsWitness ==
    /\ pc = "parsed"
    /\ body = <<Header(SmithSt, TRUE,
                       <<Row(KeyTypeOfWork, Shed), Row(KeyApplicationNo, Reference45),
                         Row(KeyDateLodged, NotADate)>>)>>
    /\ Len(developmentApplications) = 1
    /\ developmentApplications[1].address = SmithSt
    /\ developmentApplications[1].description = Shed
    /\ developmentApplications[1].applicationNumber = Reference45
    /\ developmentApplications[1].receivedDate = <<>>

\* The headings of the page with an 'Application No.' row among the rows of their div.
HeadersWithReference == {i \in 1..Len(body) : RowsWith(body[i], KeyApplicationNo) # {}}

\* C6: a heading without an 'Application No.' row (no rows at all, or no div as next
\* sibling) yields no record and prints nothing: every record carries the value of an
\* 'Application No.' row of a heading, there are no more records than headings with
\* such a row, and a page without any such row yields no record and no message.
NoReferenceNoRecord ==
    pc = "parsed" =>
        /\ \A k \in 1..Len(developmentApplications) :
              \E i \in HeadersWithReference :
                  developmentApplications[k].applicationNumber = ValueOf(body[i], KeyApplicationNo)
        /\ Len(developmentApplications) <= Cardinality(HeadersWithReference)
        /\ HeadersWithReference = {} => developmentApplications = <<>> /\ console = <<>>

\* A heading with an address whose next sibling is no div, although rows with a
\* reference follow, gave no record and no message.
NoReferenceNoRecordWitness ==
    /\ pc = "parsed"
    /\ Len(body) = 1
    /\ body[1].text = SmithSt
    /\ ~body[1].nextIsDiv
    /\ \E i \in 1..Len(body[1].rows) :
          body[1].rows[i] = Row(KeyApplicationNo, Reference45)
    /\ developmentApplications = <<>>
    /\ console = <<>>

----------------------------------------------------------------------------
(* Properties: main and the store *)

\* C1: every row of the store and every record getResults returned has a non-empty
\* reference number and a non-empty address (a heading with a reference whose
\* normalized text is empty is neither returned nor stored).
StoredRecordsComplete ==
    /\ \A r \in DOMAIN database.rows :
          /\ database.rows[r].council_reference # <<>>
          /\ database.rows[r].address # <<>>
          /\ \E i \in 1..Len(database.rows[r].address) : ~IsSpace(database.rows[r].address[i])
    /\ \A i \in 1..Len(developmentApplications) :
          /\ developmentApplications[i].applicationNumber # <<>>
          /\ developmentApplications[i].address # <<>>

\* With rows in the store, a page whose heading with reference "2" has a blank text has
\* been parsed: the heading was ignored and nothing was returned.
StoredRecordsCompleteWitness ==
    /\ pc \in {"landing", "done"}
    /\ body = PageSkipped
    /\ developmentApplications = <<>>
    /\ \E i \in 1..Len(console) : console[i] = <<"Ignoring", <<"2">>>>
    /\ database.rows # <<>>
    /\ <<"2">> \notin DOMAIN database.rows

\* C8: in the insert-or-ignore build the stored row of a reference is the first record
\* ever inserted with that reference.
FirstInsertKept ==
    program = "ignore" => database.rows = firstInserted

\* In the insert-or-ignore build a reference was inserted a second time with other
\* values and the store still holds the first.
FirstInsertKeptWitness ==
    /\ program = "ignore"
    /\ \E r \in DOMAIN lastInserted :
          /\ lastInserted[r] # firstInserted[r]
          /\ database.rows[r] = firstInserted[r]

RandomMonthOfApril2019 ==
    (today = April2019 /\ cycle = 2) =>
        /\ MonthCount(today) = 86
        /\ randomMonth \in 1..86

\* C10, as claimed: started in April 2019, monthCount = 74 and randomMonth is drawn
\* from 1..74.
RandomMonthOfApril2019Is74 ==
    (today = April2019 /\ cycle = 2) =>
        /\ MonthCount(today) = 74
        /\ randomMonth \in 1..74

\* Started in April 2019, the second cycle runs with randomMonth = 86.
RandomMonthOfApril2019Witness ==
    /\ today = April2019
    /\ cycle = 2
    /\ randomMonth = 86

----------------------------------------------------------------------------
(* Properties: the range of the second cycle *)

MonthIndex(m) == m.year * 12 + m.month

\* The parts of the claim about N and about the end of the range, and the shape of
\* the range: from one month to the next, never from a later to an earlier day.
BackfillRangeShape ==
    /\ randomMonth \in 1..MonthCount(today)
    /\ MonthIndex(result.dateFrom) = MonthIndex(today) - (randomMonth + 1)
    /\ MonthIndex(result.dateTo) = MonthIndex(today) - randomMonth
    /\ MonthIndex(result.dateTo) <= MonthIndex(today) - 1
    /\ NotBefore(SubtractMonths(today, 1), result.dateTo)
    /\ NotBefore(result.dateTo, result.dateFrom)
    /\ result.dateFrom.date <= DaysInMonth(result.dateFrom.year, result.dateFrom.month)
    /\ result.dateTo.date <= DaysInMonth(result.dateTo.year, result.dateTo.month)

\* C11, as amended: for every current date after February 2012 and every random draw,
\* N is an integer in [1, monthCount] and the range [N+1 months before today, N months
\* before today] lies between January 2012 and one month ago: its start is never
\* earlier than January 2012 and its end is never later than one month before today.
BackfillRangeFromJanuary2012 ==
    pc = "ranged" =>
        /\ BackfillRangeShape
        /\ MonthIndex(result.dateFrom) >= 2012 * 12 + 0

\* C11, as claimed: the start of the range is never earlier than March 2012.
BackfillRangeFromMarch2012 ==
    pc = "ranged" =>
        /\ BackfillRangeShape
        /\ MonthIndex(result.dateFrom) >= 2012 * 12 + 2

\* Started on 31 March 2020 with the largest draw, N = monthCount: the range is
\* [31 January 2012, 29 February 2012].
BackfillRangeFromJanuary2012Witness ==
    /\ pc = "ranged"
    /\ today = [year |-> 2020, month |-> 2, date |-> 31]
    /\ randomMonth = MonthCount(today)
    /\ result.dateFrom = [year |-> 2012, month |-> 0, date |-> 31]
    /\ result.dateTo = [year |-> 2012, month |-> 1, date |-> 29]

----------------------------------------------------------------------------
(* Properties: the course of an invocation *)

Urls(rs) == [i \in 1..Len(rs) |-> rs[i].url]

\* The number of messages of completed upserts among the printed messages.
RECURSIVE UpsertMessages(_)
UpsertMessages(printed) ==
    IF printed = <<>> THEN 0
    ELSE (IF Head(printed)[1] \in {"Saved", "Inserted", "Skipped"} THEN 1 ELSE 0)
         + UpsertMessages(Tail(printed))

\* C12: an invocation that does not fail ends after exactly two cycles and exactly the
\* four requests landing, search, landing, search; the range of the first search is
\* [one month before today, today]; no third request is issued while the first cycle
\* runs, and when the second cycle's landing request is out every record of the first
\* cycle has been upserted.
TwoSequentialCycles ==
    /\ pc = "done" =>
          /\ cycle = 2
          /\ Urls(requests) = <<"main", "search", "main", "search">>
    /\ cycle = 1 => Len(requests) <= 2
    /\ Len(requests) >= 2 =>
          /\ requests[2].dateFrom = FormatDayFirst(SubtractMonths(today, 1))
          /\ requests[2].dateTo = FormatDayFirst(today)
    /\ (cycle = 2 /\ pc \in {"landing", "sleeping", "search"}) =>
          /\ Len(requests) >= 3
          /\ insertIndex = 0
          /\ UpsertMessages(console) = Len(developmentApplications)
          /\ \A i \in 1..Len(developmentApplications) :
                developmentApplications[i].applicationNumber \in DOMAIN database.rows

\* The landing request of the second cycle is out after the two records of the first
\* cycle were upserted.
TwoSequentialCyclesWitness ==
    /\ cycle = 2
    /\ pc = "landing"
    /\ Len(developmentApplications) = 2
    /\ UpsertMessages(console) = 2
    /\ Urls(requests) = <<"main", "search", "main">>

\* The pacing delays of sleep(2000 + getRandom(0, 5) * 1000), in milliseconds.
PacingDelays == {2000 + extra : extra \in {0, 1000, 2000, 3000, 4000}}

\* C13: a search request is issued only after the landing request of its cycle was
\* answered and the pacing delay (2000 ms plus one of 0, 1000, 2000, 3000, 4000 ms) has
\* run out; it is sent with the jar of that landing request, which then holds the
\* session cookie; every landing request is sent with a new, empty jar.
SearchAfterLandingAndDelay ==
    /\ \A i \in 1..Len(requests) :
          requests[i].url = "search" =>
              /\ i > 1
              /\ requests[i - 1].url = "main"
              /\ requests[i - 1].jar = requests[i].jar
              /\ requests[i].cookie
    /\ \A i, j \in 1..Len(requests) :
          (requests[i].url = "main" /\ requests[j].url = "main" /\ i # j) =>
              requests[i].jar # requests[j].jar
    /\ \A i \in 1..Len(requests) : requests[i].url = "main" => ~requests[i].cookie
    /\ pc \in {"landing", "sleeping"} =>
          /\ requests[Len(requests)].url = "main"
          /\ requests[Len(requests)].jar = jar.id
    /\ pc = "landing" => ~jar.cookie /\ timer = 0
    /\ pc = "sleeping" => jar.cookie /\ timer \in PacingDelays
    /\ pc = "search" =>
          /\ timer = 0
          /\ requests[Len(requests)].url = "search"
          /\ requests[Len(requests)].jar = jar.id

\* The search request of the second cycle is out, sent with the second jar, after the
\* search request of the first cycle was sent with the first.
SearchAfterLandingAndDelayWitness ==
    /\ pc = "search"
    /\ cycle = 2
    /\ Len(requests) = 4
    /\ requests[2].jar = 1 /\ requests[2].cookie
    /\ requests[4].jar = 2 /\ requests[4].cookie

\* A message of this kind has been printed.
Printed(kind) == \E i \in 1..Len(console) : console[i][1] = kind

\* C14: 'Complete.' is printed exactly when main has finished without error; after an
\* error (of a request or of an upsert) the error is printed, 'Complete.' is not, and the
\* process ends in a failure state: with an exit code other than the 0 of success.
CompleteOrFailureState ==
    /\ Printed("Complete.") <=> pc = "done"
    /\ pc = "done" => exited = <<0>>
    /\ pc = "failed" =>
          /\ Printed("error")
          /\ exited # <<>>
          /\ exited # <<0>>

\* C15: once an error was printed (a rejected request of either cycle or a failed
\* upsert), the invocation starts no further request and no further upsert and its
\* position does not change; the failing step itself issues no request and leaves the
\* rows of the store as they were, so the rows upserted before stay.
NoRetryAfterFailure ==
    [][/\ (Printed("error") /\ runs' = runs) =>
             /\ pc = "failed" /\ pc' = "failed"
             /\ requests' = requests
             /\ database'.rows = database.rows
             /\ lastInserted' = lastInserted
             /\ insertIndex' = insertIndex
             /\ statements' = statements
       /\ (pc # "failed" /\ pc' = "failed") =>
             /\ Printed("error")'
             /\ requests' = requests
             /\ database'.rows = database.rows
       /\ (~Printed("error") /\ Printed("error")') => pc' = "failed"]_vars

\* The second upsert of the first cycle has failed: the row of the first record is in
\* the store, and only the two requests of the first cycle were issued.
NoRetryAfterFailureWitness ==
    /\ pc = "failed"
    /\ cycle = 1
    /\ insertIndex = 2
    /\ Len(requests) = 2
    /\ developmentApplications[1].applicationNumber \in DOMAIN database.rows
    /\ developmentApplications[2].applicationNumber \notin DOMAIN database.rows

\* C16: every insertRow call finalizes the statement it prepared right after its
\* upsert, whether the upsert succeeded or failed: the only statement not finalized is
\* the one of the upsert that is awaited, and none is left between upserts or at the end.
StatementsFinalized ==
    /\ pc = "insert" => statements = 1
    /\ pc # "insert" => statements = 0

\* The number of I/O operations outstanding: the create-table statement, an HTTP
\* request, the pacing delay, an upsert.
Outstanding ==
    (IF ddl = "queued" THEN 1 ELSE 0)
    + (IF pc \in {"landing", "search"} THEN 1 ELSE 0)
    + (IF pc = "sleeping" THEN 1 ELSE 0)
    + (IF pc = "insert" THEN 1 ELSE 0)

\* C17: at any moment at most one I/O operation is outstanding; the table creation has
\* completed before the first request or upsert starts; the records of a cycle are
\* upserted one at a time in extraction order.
OneOperationAtATime ==
    /\ Outstanding <= 1
    /\ requests # <<>> => ddl = "done"
    /\ pc = "insert" =>
          /\ ddl = "done"
          /\ insertIndex \in 1..Len(developmentApplications)
          /\ UpsertMessages(console) = insertIndex - 1
          /\ \A i \in 1..(insertIndex - 1) :
                developmentApplications[i].applicationNumber \in DOMAIN database.rows

\* C18, as amended: every successful upsert prints one message. The insert-or-ignore
\* build prints 'Inserted' for a reference that was new and 'Skipped' for one already
\* in the table; the insert-or-replace build prints the same 'Saved' in both cases.
UpsertMessagePerBuild ==
    /\ program = "ignore" =>
          outcomes \subseteq {[message |-> "Inserted", present |-> FALSE],
                              [message |-> "Skipped", present |-> TRUE]}
    /\ program = "replace" =>
          outcomes \subseteq {[message |-> "Saved", present |-> FALSE],
                              [message |-> "Saved", present |-> TRUE]}

\* C18, as claimed: the message of an upsert whose reference was already in the table
\* differs from the message of an upsert whose reference was new.
UpsertOutcomesDistinct ==
    \A a, b \in outcomes : a.present # b.present => a.message # b.message

\* The insert-or-replace build has upserted a new reference and one already in the
\* table.
UpsertMessagePerBuildWitness ==
    /\ program = "replace"
    /\ \E a, b \in outcomes : a.present /\ ~b.present

----------------------------------------------------------------------------
(* Properties: the headings of a page *)

\* The received date a heading's own rows give: that of its last 'Date Lodged' row.
OwnReceivedDate(h) ==
    IF RowsWith(h, KeyDateLodged) = {} THEN <<>>
    ELSE ReceivedDateText(StrictParseDate(ValueOf(h, KeyDateLodged)))

OwnDescription(h) ==
    IF ValueOf(h, KeyTypeOfWork) = <<>> THEN NoDescriptionProvided
    ELSE ValueOf(h, KeyTypeOfWork)

\* C19: the records of a page are those of its headings taken one by one, in document
\* order, at most one per heading: a heading that is skipped (blank text or no
\* reference) gives none and changes no other record, and every field of a record comes
\* from the text and the rows of its own heading.
HeadingsIndependent ==
    pc = "parsed" =>
        /\ Len(developmentApplications) = Len(EmittingHeaders)
        /\ Len(developmentApplications) <= Len(body)
        /\ \A i \in 1..Len(developmentApplications) :
              /\ developmentApplications[i].applicationNumber =
                    ValueOf(EmittingHeaders[i], KeyApplicationNo)
              /\ developmentApplications[i].address = CollapsedText(EmittingHeaders[i].text)
              /\ developmentApplications[i].description = OwnDescription(EmittingHeaders[i])
              /\ developmentApplications[i].receivedDate = OwnReceivedDate(EmittingHeaders[i])

\* A heading with a reference, a description and a date but a blank text is followed by
\* a heading that has a reference only: the one record is that of the second heading,
\* with the placeholder and no date.
HeadingsIndependentWitness ==
    /\ pc = "parsed"
    /\ Len(body) = 2
    /\ ~Emits(body[1])
    /\ ValueOf(body[1], KeyApplicationNo) = <<"8">>
    /\ ValueOf(body[1], KeyTypeOfWork) = <<"D">>
    /\ OwnReceivedDate(body[1]) # <<>>
    /\ Len(developmentApplications) = 1
    /\ developmentApplications[1].applicationNumber = <<"7">>
    /\ developmentApplications[1].description = NoDescriptionProvided
    /\ developmentApplications[1].receivedDate = <<>>

----------------------------------------------------------------------------
(* Properties: the store across invocations *)

\* C20: over any sequence of invocations the table holds one row per council_reference,
\* stored under that reference, and the set of stored references never shrinks; the
\* steps of the table initialization (also on an existing table) and the start of an
\* invocation leave every row as it is; a step that changes the rows is an upsert and
\* changes at most the row of its own reference.
StoreKeepsReferences ==
    [][/\ DOMAIN database.rows \subseteq DOMAIN database'.rows
       /\ \A r \in DOMAIN database'.rows : database'.rows[r].council_reference = r
       /\ (ddl' # ddl \/ runs' # runs) => database'.rows = database.rows
       /\ database'.rows # database.rows =>
             /\ pc = "insert"
             /\ DOMAIN database'.rows =
                   DOMAIN database.rows \cup {developmentApplications[insertIndex].applicationNumber}
             /\ \A r \in DOMAIN database.rows :
                   r # developmentApplications[insertIndex].applicationNumber =>
                       database'.rows[r] = database.rows[r]]_vars

\* The second invocation has run the table initialization on the table that holds the
\* two rows of the first, and has not upserted yet.
StoreKeepsReferencesWitness ==
    /\ runs = 2
    /\ ddl = "done"
    /\ database.exists
    /\ cycle = 1
    /\ pc = "landing"
    /\ Cardinality(DOMAIN database.rows) = 2
    /\ database.rows = lastInserted \/ database.rows = firstInserted

====
